---------------------------- MODULE Spec2Model ----------------------------
(***************************************************************************)
(* State-machine model of the olrc-importer upload scripts.                *)
(*                                                                         *)
(*   arch-importer.py : resumable uploader (state file, pre-flight stat,   *)
(*                      orphan-segment cleanup, bounded recursive retry)   *)
(*   warc-importer.py : uploader without resume (bounded recursive retry)  *)
(*                                                                         *)
(* Every subprocess call (swiftclient stat / list / delete / upload /      *)
(* auth) is an input: its exit status or exception is chosen with \E at    *)
(* the step that makes the call.  A KeyboardInterrupt (Ctrl+C) may arrive  *)
(* during any blocking call.  A kill of the process freezes the artifacts  *)
(* (state file, backup, result log, containers) as they are in the state   *)
(* where it happens, so statements about "what a later load sees" are      *)
(* invariants over the artifacts.                                          *)
(***************************************************************************)
EXTENDS Integers, Sequences, FiniteSets, TLC

VARIABLES
    prog,            \* "arch" | "warc": the script that runs; "cleanup" |
                     \*   "roundtrip": one function of arch-importer.py
    pc,              \* position of the (single) thread of control
    exc,             \* "none", or the exception that ended the run uncaught
    aip_files,       \* main: sorted list of discovered files
    size,            \* st_size of each discovered file (bytes, see GiB)
    max_retries,     \* MAX_RETRIES in force for the run
    stateFile,       \* content of STATE_FILE
    backupFile,      \* content of STATE_FILE.with_suffix('.json.corrupted')
    remote,          \* object names present in CONTAINER
    segments,        \* keys present in SEGMENT_CONTAINER
    csv,             \* rows appended to CSV_SUMMARY by this run
    uploaded_files,  \* main: the in-memory completed set
    remaining_files, \* main: files still to upload
    idx,             \* main: index of the file of the for loop
    frames,          \* upload_aip recursion: how each deeper call was made
    success_count,   \* main: success_count
    doc,             \* the `state` dict of save_state / of main
    ret,             \* save_state: where its caller continues
    todo,            \* cleanup_segments: matching segments still to delete
    hist             \* history (ghost) record, see HistInit

vars == << prog, pc, exc, aip_files, size, max_retries, stateFile, backupFile,
           remote, segments, csv, uploaded_files, remaining_files, idx,
           frames, success_count, doc, ret, todo, hist >>

---------------------------------------------------------------------------
(* Bounds and constants *)

\* MAX_RETRIES as both scripts set it, and the largest other value of it
\* that runs are explored with.
MAX_RETRIES == 5
MaxRetriesBound == 3

\* 1024 * 1024 * 1024.  A number of bytes n is the pair << n \div GiB,
\* n % GiB >>: Python's integers are unbounded, and 5 GiB does not fit the
\* 32-bit integers of the model checker.
GiB == 1073741824

\* 1024 * 1024.
MiB == 1048576

\* Segmentation threshold of upload_aip: 5 * 1024 * 1024 * 1024 bytes.
SEGMENT_THRESHOLD == << 5, 0 >>

\* Limit of the "small file" of warc-importer's test upload: 100 MiB.
SMALL_LIMIT == << 0, 100 * MiB >>

\* a > b on byte counts.
BytesGt(a, b) == a[1] > b[1] \/ (a[1] = b[1] /\ a[2] > b[2])

\* n + 1 on byte counts.
BytesSucc(n) ==
    IF n[2] + 1 = GiB THEN << n[1] + 1, 0 >> ELSE << n[1], n[2] + 1 >>

\* Number of segment indices a segmented object may have in the model.
MaxSegIdx == 1

\* Python's None where a file name is expected (current_file).
NoFile == << >>

---------------------------------------------------------------------------
(* Names, sizes, segment keys.  Names are character sequences, so that the *)
(* substring test of cleanup_segments is computed, not assumed.            *)

FileA  == << "a" >>
FileAB == << "a", "b" >>
FileZ  == << "z" >>

\* sorted(AIP_ROOT.glob("*.7z")) is a sorted sub-list of the directory.
FileOrder == << FileA, FileAB >>
Files == { FileOrder[i] : i \in 1..Len(FileOrder) }

\* Names a state file may hold: files of the directory, and one that is no
\* longer there.
StateNames == Files \cup { FileZ }

\* File sizes explored: the threshold and one byte more.
Sizes == { SEGMENT_THRESHOLD, BytesSucc(SEGMENT_THRESHOLD) }

Digit(i) == CASE i = 1 -> "1" [] i = 2 -> "2" [] i = 3 -> "3" [] OTHER -> "9"

\* Key of segment i of object name n in SEGMENT_CONTAINER.
SegKey(n, i) == n \o << "/", Digit(i) >>

SegKeysOf(n) == { SegKey(n, i) : i \in 1..MaxSegIdx }

SeqToSet(q) == { q[i] : i \in 1..Len(q) }

\* Python's `sub in s` on strings.
Contains(sub, s) ==
    \E i \in 0..(Len(s) - Len(sub)) :
        \A j \in 1..Len(sub) : s[i + j] = sub[j]


---------------------------------------------------------------------------
(* The state artifact.  A content is a record; `kind` tells what the bytes *)
(* are:                                                                    *)
(*   absent       no file                                                  *)
(*   empty        zero bytes (or whitespace only)                          *)
(*   truncated    a strict, non-empty prefix of a JSON document            *)
(*   garbage      bytes that are not JSON                                  *)
(*   scalar       valid JSON null / number / true                          *)
(*   list_empty   valid JSON []                                            *)
(*   list         valid JSON non-empty list (or non-empty string)          *)
(*   obj_empty    valid JSON {}                                            *)
(*   obj_partial  valid JSON non-empty object without 'uploaded_files'     *)
(*   state_nocur  object with 'uploaded_files' but without 'current_file'  *)
(*   state        the document save_state writes                           *)

Content(kind, u, f, a) ==
    [ kind |-> kind, uploaded_files |-> u, current_file |-> f,
      current_attempt |-> a ]

Plain(kind) == Content(kind, {}, NoFile, 0)

Absent == Plain("absent")

\* Python's None where load_state's result is expected.
None == Plain("None")

\* The directory of the files, AIP_ROOT (line 12), as a string.
AIP_ROOT == << "/", "r" >>

\* str(aip_file) of a file of the directory: glob yields AIP_ROOT / name.
PathStr(name) == AIP_ROOT \o << "/" >> \o name

\* Position of the last "/" of a string, 0 when it has none.
LastSlash(s) ==
    LET at == { i \in 1..Len(s) : s[i] = "/" }
    IN  IF at = {} THEN 0 ELSE CHOOSE i \in at : \A j \in at : j <= i

\* Faulty variant of PathName: the string is taken as the name.
PathNameWhole(s) == s

\* Path(s).name (line 297): what follows the last "/".
PathName(s) == SubSeq(s, LastSlash(s) + 1, Len(s))

\* 'current_file': str(current_file) if current_file else None (line 57).
CurrentFileStr(current_file) ==
    IF current_file # NoFile THEN PathStr(current_file) ELSE NoFile

\* Faulty variant of StateDoc: the completed names are not written.
StateDocWithoutNames(uploaded, current_file, current_attempt) ==
    Content("state", {}, CurrentFileStr(current_file), current_attempt)

\* The dict built by save_state (lines 55-60); the timestamp is not modelled.
\* list(uploaded_files) then set(...) at load keep the same elements.
StateDoc(uploaded, current_file, current_attempt) ==
    Content("state", uploaded, CurrentFileStr(current_file), current_attempt)

MalformedKinds ==
    { "empty", "truncated", "garbage", "scalar", "list_empty", "list",
      "obj_empty", "obj_partial" }

\* Well-formed artifacts a run may start from: none, or the document an
\* earlier run left (interrupted in its first task; after some tasks; with a
\* completed name that is no longer in the directory).
ResumeContents ==
    { Absent,
      StateDoc({}, FileA, 2),
      StateDoc({FileA}, NoFile, 1),
      StateDoc({FileAB}, NoFile, 1),
      StateDoc({FileA}, FileAB, 2),
      StateDoc({FileA, FileAB}, NoFile, 1),
      StateDoc({FileA, FileZ}, NoFile, 1) }

\* Artifacts that are not such a document.
MalformedContents ==
    { Plain(k) : k \in MalformedKinds }
    \cup { Content("state_nocur", {FileA}, NoFile, 0) }

\* json.loads(content) raises JSONDecodeError (line 77).
JSONDecodeError(c) == c.kind \in { "truncated", "garbage" }

\* `'uploaded_files' in state` raises TypeError (line 79): caught by the
\* generic handler of line 92.
LoadTypeError(c) == c.kind = "scalar"

\* load_state (lines 68-95): the value returned, None or the parsed content.
load_state(c) ==
    IF c.kind \in { "absent", "empty" } \/ JSONDecodeError(c) \/ LoadTypeError(c)
    THEN None
    ELSE c

\* load_state, lines 82-91: the corrupted file is renamed to the backup.
LoadBacksUp(c) == JSONDecodeError(c)

\* Python truthiness of what load_state returned (`if state`, lines 292, 294).
Truthy(state) ==
    /\ state # None
    /\ state.kind \notin { "list_empty", "obj_empty" }

\* main, lines 292-297: the exception its use of `state` raises, or "none".
MainStateError(state) ==
    IF ~Truthy(state) THEN "none"
    ELSE CASE state.kind = "list"        -> "TypeError"
           [] state.kind = "obj_partial" -> "KeyError"
           [] state.kind = "state_nocur" -> "KeyError"
           [] OTHER                      -> "none"

\* Faulty variant of InitialUploaded: the loaded completed set is dropped.
InitialUploadedDropped(state) == {}

\* main, line 292.
InitialUploaded(state) ==
    IF Truthy(state) THEN state.uploaded_files ELSE {}

\* The task a loaded state names as in flight: none, or the name main
\* derives from 'current_file' (lines 296-297) with 'current_attempt'.
NoInFlight == << >>

InFlight(state) ==
    IF ~Truthy(state) \/ state.current_file = NoFile THEN NoInFlight
    ELSE << PathName(state.current_file), state.current_attempt >>

\* main, line 303.
Remaining(files, uploaded) ==
    SelectSeq(files, LAMBDA f : f \notin uploaded)

---------------------------------------------------------------------------
(* History record: what the run has done so far (not program state).      *)

\* The locals of one cleanup_segments call, and what the call did.
CleanupInit ==
    [ listed    |-> FALSE,     \* the list call returned 0
      matched   |-> {},        \* the segments of line 107
      attempted |-> {},        \* keys a delete call was issued for
      removed   |-> {},        \* keys whose delete call removed them
      aborted   |-> FALSE,     \* an exception ended the call (line 117)
      before    |-> {} ]       \* the container when the call was made

HistInit ==
    [ completed0 |-> {},                       \* completed set the run
                                               \*   started with (line 292)
      cmds       |-> {},                       \* files an upload command
                                               \*   was issued for
      tries      |-> 0,                        \* upload commands issued for
                                               \*   the current task
      fails      |-> 0,                        \* those that exited non-zero
                                               \*   or timed out
      rows0      |-> 0,                        \* Len(csv) when the current
                                               \*   task started
      stats      |-> {},                       \* files whose pre-flight ran
      hits       |-> {},                       \* files the pre-flight found
      marked     |-> {},                       \* names whose completion was
                                               \*   saved (the save returned)
      authFailed |-> FALSE,                    \* check_credentials failed
      transferred |-> {},                      \* files whose upload command
                                               \*   exited 0
      segcmd     |-> {},                       \* files whose last upload
                                               \*   command was a segmented
                                               \*   one
      cancelled  |-> FALSE,                    \* a KeyboardInterrupt arrived
                                               \*   in the task and no
                                               \*   subprocess call has been
                                               \*   completed since
      fatal      |-> FALSE,                    \* the last upload command of
                                               \*   the task failed for a
                                               \*   cause of FatalCauses, and
                                               \*   the task has not ended
      cleaned    |-> FALSE,                    \* cleanup_segments was called
                                               \*   since the task started or
                                               \*   its last attempt failed
      before     |-> Absent,                   \* during save_state: the state
                                               \*   artifact when it was called
      cl         |-> CleanupInit ]

\* The values of MAX_RETRIES explored: every one up to the bound, and the
\* one the scripts set.
RetryLimits == (1..MaxRetriesBound) \cup { MAX_RETRIES }

\* Non-empty sorted sub-lists of the directory.
TaskLists ==
    { SelectSeq(FileOrder, LAMBDA f : f \in S) : S \in (SUBSET Files) \ { {} } }

\* Leftover segments of earlier runs: all segments of some of the files.
InitSegments(files) ==
    { UNION { SegKeysOf(f) : f \in S } : S \in { {}, SeqToSet(files) } }

\* A run of arch-importer.py starts: either from a well-formed artifact, with
\* every task list, size, retry limit and container content (the retry limit
\* the script sets, MAX_RETRIES, with one file); or from a malformed artifact,
\* with the full directory and one attempt per file.
InitArch ==
    /\ prog = "arch"
    /\ pc = "load_state"
    /\ exc = "none"
    /\ \/ /\ stateFile \in ResumeContents
          /\ aip_files \in TaskLists
          /\ size \in [ Files -> Sizes ]
          /\ max_retries \in IF Len(aip_files) = 1 THEN RetryLimits
                             ELSE 1..MaxRetriesBound
          /\ segments \in InitSegments(aip_files)
       \/ /\ stateFile \in MalformedContents
          /\ aip_files = FileOrder
          /\ size = [ f \in Files |-> BytesSucc(SEGMENT_THRESHOLD) ]
          /\ max_retries = 1
          /\ segments = {}
    /\ backupFile = Absent
    /\ remote \in SUBSET SeqToSet(aip_files)
    /\ csv = << >>
    /\ uploaded_files = {}
    /\ remaining_files = << >>
    /\ idx = 0
    /\ frames = << >>
    /\ success_count = 0
    /\ doc = Absent
    /\ ret = "none"
    /\ todo = << >>
    /\ hist = HistInit

---------------------------------------------------------------------------
(* main of arch-importer.py: start-up                                      *)

\* An uncaught exception: the interpreter prints a traceback and exits.
Uncaught(e) ==
    /\ pc' = "uncaught"
    /\ exc' = e

\* main, lines 290-307: load_state and main's use of what it returned.
LoadState ==
    /\ prog = "arch"
    /\ pc = "load_state"
    /\ LET state == load_state(stateFile)
           err   == MainStateError(state)
       IN  /\ IF LoadBacksUp(stateFile)
              THEN /\ backupFile' = stateFile
                   /\ stateFile' = Absent
              ELSE UNCHANGED << stateFile, backupFile >>
           /\ IF err # "none"
              THEN /\ Uncaught(err)
                   /\ UNCHANGED << uploaded_files, remaining_files >>
              ELSE /\ uploaded_files' = InitialUploaded(state)
                   /\ remaining_files' = Remaining(aip_files, InitialUploaded(state))
                   \* lines 304-305: get_file_size stats the first files
                   \* of the listing, outside any handler
                   /\ \E readable \in BOOLEAN :
                         IF ~readable /\ remaining_files' # << >>
                         THEN Uncaught("FileNotFoundError")
                         ELSE /\ pc' = "check_credentials"
                              /\ exc' = exc
           /\ hist' = [ hist EXCEPT !.completed0 =
                                      IF stateFile.kind = "state"
                                      THEN stateFile.uploaded_files ELSE {} ]
    /\ UNCHANGED << prog, aip_files, size, max_retries, remote, segments, csv,
                    idx, frames, success_count, doc, ret, todo >>

\* Faulty variant of CheckCredentials: the run goes on after a failure.
CheckCredentialsNoExit ==
    /\ prog = "arch"
    /\ pc = "check_credentials"
    /\ \E outcome \in { "ok", "missing", "auth_failed", "auth_timeout" } :
          /\ pc' = "test_connection"
          /\ hist' = [ hist EXCEPT !.authFailed = (outcome # "ok") ]
    /\ UNCHANGED << prog, exc, aip_files, size, max_retries, stateFile,
                    backupFile, remote, segments, csv, uploaded_files,
                    remaining_files, idx, frames, success_count, doc, ret,
                    todo >>

\* check_credentials (lines 140-165): a missing variable, a failed or timed
\* out auth call all end in sys.exit(1).
CheckCredentials ==
    /\ prog = "arch"
    /\ pc = "check_credentials"
    /\ \E outcome \in { "ok", "missing", "auth_failed", "auth_timeout" } :
          /\ pc' = IF outcome = "ok" THEN "test_connection" ELSE "exit1"
          /\ hist' = [ hist EXCEPT !.authFailed = (outcome # "ok") ]
    /\ UNCHANGED << prog, exc, aip_files, size, max_retries, stateFile,
                    backupFile, remote, segments, csv, uploaded_files,
                    remaining_files, idx, frames, success_count, doc, ret,
                    todo >>

\* test_connection (lines 167-181) and main, lines 314-316.
TestConnection ==
    /\ prog = "arch"
    /\ pc = "test_connection"
    /\ \E outcome \in { "rc0", "nonzero", "timeout" } :
          pc' = IF outcome = "rc0" THEN "ensure_container_exists" ELSE "exit1"
    /\ UNCHANGED << prog, exc, aip_files, size, max_retries, stateFile,
                    backupFile, remote, segments, csv, uploaded_files,
                    remaining_files, idx, frames, success_count, doc, ret,
                    todo, hist >>

\* ensure_container_exists (lines 183-203), init_csv (line 321) and
\* success_count = len(uploaded_files) (line 327).  CalledProcessError is
\* handled; subprocess.TimeoutExpired of the stat/post calls is not.
EnsureContainers ==
    /\ prog = "arch"
    /\ pc = "ensure_container_exists"
    /\ \E outcome \in { "ok", "timeout" } :
          IF outcome = "ok"
          THEN /\ pc' = "loop"
               /\ exc' = exc
               /\ idx' = 1
               /\ success_count' = Cardinality(uploaded_files)
          ELSE /\ Uncaught("TimeoutExpired")
               /\ UNCHANGED << idx, success_count >>
    /\ UNCHANGED << prog, aip_files, size, max_retries, stateFile, backupFile,
                    remote, segments, csv, uploaded_files,
                    remaining_files, frames, doc, ret, todo, hist >>

---------------------------------------------------------------------------
(* upload_aip of arch-importer.py                                          *)

\* The file of the current iteration of main's for loop (line 330).
aip_file == remaining_files[idx]

\* The `attempt` parameter of the innermost upload_aip call.
attempt == Len(frames) + 1

\* Faulty variant of Segmented: a file of exactly the threshold is segmented.
SegmentedAtThreshold(f) == ~BytesGt(SEGMENT_THRESHOLD, size[f])

\* Line 237 (warc-importer line 147): the upload command gets --segment-size
\* and --segment-container.
Segmented(f) == BytesGt(size[f], SEGMENT_THRESHOLD)

\* save_state(uploaded, current_file, current_attempt) is called; its caller
\* continues at `after` when it returns.
CallSaveState(uploaded, current_file, current_attempt, after) ==
    /\ pc' = "save_open"
    /\ doc' = StateDoc(uploaded, current_file, current_attempt)
    /\ ret' = after

\* main, lines 330-331: the next file is handed to upload_aip.
LoopNext ==
    /\ prog = "arch"
    /\ pc = "loop"
    /\ idx <= Len(remaining_files)
    /\ pc' = "upload_aip"
    /\ frames' = << >>
    /\ hist' = [ hist EXCEPT !.cleaned = FALSE, !.tries = 0, !.fails = 0,
                             !.rows0 = Len(csv), !.cancelled = FALSE ]
    /\ UNCHANGED << prog, exc, aip_files, size, max_retries, stateFile,
                    backupFile, remote, segments, csv, uploaded_files,
                    remaining_files, idx, success_count, doc, ret, todo >>

\* main, lines 334-351: the loop is over; the state file is removed and the
\* summary printed.
LoopEnd ==
    /\ prog = "arch"
    /\ pc = "loop"
    /\ idx > Len(remaining_files)
    /\ stateFile' = Absent
    /\ pc' = "done"
    /\ UNCHANGED << prog, exc, aip_files, size, max_retries, backupFile,
                    remote, segments, csv, uploaded_files, remaining_files,
                    idx, frames, success_count, doc, ret, todo, hist >>

\* upload_aip, lines 207-217.  aip_file.stat() raises when the file is gone;
\* nothing between here and the interpreter handles OSError.
UploadAipEntry ==
    /\ prog = "arch"
    /\ pc = "upload_aip"
    /\ \E readable \in BOOLEAN :
          IF ~readable
          THEN Uncaught("FileNotFoundError")
          ELSE /\ pc' = IF aip_file \in uploaded_files
                        THEN "return_true"
                        ELSE "check_object_exists"
               /\ exc' = exc
    /\ UNCHANGED << prog, aip_files, size, max_retries, stateFile, backupFile,
                    remote, segments, csv, uploaded_files, remaining_files,
                    idx, frames, success_count, doc, ret, todo, hist >>

\* check_object_exists (lines 120-129): True iff the stat call exits 0.  A
\* non-zero exit, a timeout, and (bare except) a KeyboardInterrupt all give
\* False.
StatOutcomes == { "rc0", "nonzero", "timeout", "interrupt" }

\* Faulty variant of check_object_exists: any exit status counts as found.
check_object_exists_any_exit(outcome) == outcome \in { "rc0", "nonzero" }

check_object_exists(outcome) == outcome = "rc0"

\* upload_aip, lines 219-225.
CheckObjectExists ==
    /\ prog = "arch"
    /\ pc = "check_object_exists"
    /\ \E outcome \in StatOutcomes :
          /\ outcome = "rc0" => aip_file \in remote
          /\ IF check_object_exists(outcome)
             THEN /\ uploaded_files' = uploaded_files \cup { aip_file }
                  /\ CallSaveState(uploaded_files', NoFile, 1, "return_true")
                  /\ hist' = [ hist EXCEPT
                                 !.stats = @ \cup { aip_file },
                                 !.hits = @ \cup { aip_file },
                                 !.fatal = FALSE,
                                 !.cancelled = FALSE ]
             ELSE /\ pc' = IF attempt = 1 THEN "cleanup_list" ELSE "upload"
                  /\ hist' = [ hist EXCEPT
                                 !.stats = @ \cup { aip_file },
                                 !.cancelled = (outcome = "interrupt") ]
                  /\ UNCHANGED << uploaded_files, doc, ret >>
    /\ UNCHANGED << prog, exc, aip_files, size, max_retries, stateFile,
                    backupFile, remote, segments, csv, remaining_files, idx,
                    frames, success_count, todo >>

---------------------------------------------------------------------------
(* cleanup_segments (lines 97-118)                                         *)

\* Objects whose segments the segment container may hold, and the order in
\* which `swift list` prints their keys (sorted).
SegObjects == << FileA, FileAB, << "b", "a" >>, FileZ >>

KeysOfObject(i) == [ j \in 1..MaxSegIdx |-> SegKey(SegObjects[i], j) ]

RECURSIVE KeysFrom(_)
KeysFrom(i) ==
    IF i > Len(SegObjects) THEN << >>
    ELSE KeysOfObject(i) \o KeysFrom(i + 1)

KeyOrder == KeysFrom(1)

AllKeys == { KeyOrder[i] : i \in 1..Len(KeyOrder) }

\* stdout of `swift list SEGMENT_CONTAINER`, one key per line.
Listing(keys) == SelectSeq(KeyOrder, LAMBDA k : k \in keys)

\* Line 107-108: the lines of the listing that contain the file name.
MatchingSegments(filename, keys) ==
    SelectSeq(Listing(keys), LAMBDA line : Contains(filename, line))

\* Lines 101-110: the list call.
CleanupList ==
    /\ pc = "cleanup_list"
    /\ \E outcome \in { "rc0", "nonzero", "timeout", "interrupt" } :
          CASE outcome = "rc0" ->
                 LET segs == MatchingSegments(aip_file, segments)
                 IN  /\ todo' = segs
                     /\ pc' = IF segs = << >> THEN "cleanup_return"
                              ELSE "cleanup_delete"
                     /\ hist' = [ hist EXCEPT
                                    !.cleaned = TRUE,
                                    !.cancelled = FALSE,
                                    !.cl = [ CleanupInit EXCEPT
                                               !.listed = TRUE,
                                               !.matched = SeqToSet(segs),
                                               !.before = segments ] ]
            [] outcome = "nonzero" ->
                 /\ todo' = << >>
                 /\ pc' = "cleanup_return"
                 /\ hist' = [ hist EXCEPT
                                !.cleaned = TRUE,
                                !.cancelled = FALSE,
                                !.cl = [ CleanupInit EXCEPT !.before = segments ] ]
            [] outcome = "timeout" ->
                 /\ todo' = << >>
                 /\ pc' = "cleanup_return"
                 /\ hist' = [ hist EXCEPT
                                !.cleaned = TRUE,
                                !.cancelled = FALSE,
                                !.cl = [ CleanupInit EXCEPT
                                           !.aborted = TRUE,
                                           !.before = segments ] ]
            [] outcome = "interrupt" ->
                 /\ todo' = << >>
                 /\ pc' = "kbd_handler"
                 /\ hist' = [ hist EXCEPT !.cleaned = TRUE,
                                          !.cancelled = TRUE,
                                          !.cl = CleanupInit ]
    /\ UNCHANGED << prog, exc, aip_files, size, max_retries, stateFile,
                    backupFile, remote, segments, csv, uploaded_files,
                    remaining_files, idx, frames, success_count, doc, ret >>

\* Lines 111-118: one iteration of the delete loop.  A non-zero exit is
\* ignored (no check=True); TimeoutExpired leaves the loop through the
\* handler of line 117; KeyboardInterrupt is no Exception and leaves the
\* function.
CleanupDelete ==
    /\ pc = "cleanup_delete"
    /\ todo # << >>
    /\ LET segment == Head(todo)
           rest    == Tail(todo)
           tried   == [ hist EXCEPT !.cl.attempted = @ \cup { segment } ]
       IN  \E outcome \in { "rc0", "nonzero", "timeout", "interrupt" } :
              CASE outcome = "rc0" ->
                     /\ segments' = segments \ { segment }
                     /\ todo' = rest
                     /\ pc' = IF rest = << >> THEN "cleanup_return"
                              ELSE "cleanup_delete"
                     /\ hist' = [ tried EXCEPT !.cl.removed = @ \cup { segment } ]
                [] outcome = "nonzero" ->
                     /\ segments' = segments
                     /\ todo' = rest
                     /\ pc' = IF rest = << >> THEN "cleanup_return"
                              ELSE "cleanup_delete"
                     /\ hist' = tried
                [] outcome = "timeout" ->
                     /\ segments' = segments
                     /\ todo' = << >>
                     /\ pc' = "cleanup_return"
                     /\ hist' = [ tried EXCEPT !.cl.aborted = TRUE ]
                [] outcome = "interrupt" ->
                     /\ segments' = segments
                     /\ todo' = << >>
                     /\ pc' = "kbd_handler"
                     /\ hist' = [ tried EXCEPT !.cancelled = TRUE ]
    /\ UNCHANGED << prog, exc, aip_files, size, max_retries, stateFile,
                    backupFile, remote, csv, uploaded_files, remaining_files,
                    idx, frames, success_count, doc, ret >>

\* The value cleanup_segments returns: the function has no return statement.
cleanup_segments_value == [ isNone |-> TRUE, count |-> 0 ]

\* upload_aip, line 230 -> 232: the call returns, its locals are gone.
CleanupReturn ==
    /\ prog = "arch"
    /\ pc = "cleanup_return"
    /\ pc' = "upload"
    /\ todo' = << >>
    /\ hist' = [ hist EXCEPT !.cl = CleanupInit ]
    /\ UNCHANGED << prog, exc, aip_files, size, max_retries, stateFile,
                    backupFile, remote, segments, csv, uploaded_files,
                    remaining_files, idx, frames, success_count, doc, ret >>

---------------------------------------------------------------------------
(* upload_aip, lines 232-272: the transfer and what follows it             *)

\* What a transfer that did not complete may leave in the segment container:
\* nothing for an unsegmented upload, any of the object's segments otherwise.
Leftovers(f) ==
    IF Segmented(f) THEN SUBSET SegKeysOf(f) ELSE { {} }

\* Lines 232-238: the set of files whose last upload command was a
\* segmented one, after a command for f is built.
WithCommand(S, f) == IF Segmented(f) THEN S \cup { f } ELSE S \ { f }

\* Why an upload command exits non-zero: the transport failed, or the
\* server refused the credentials.  The scripts read only the exit status.
ExitCauses == { "transport", "auth" }

FatalCauses == { "auth" }

\* Faulty variant of ShouldRetry: the comparison is off by one.
ShouldRetryOffByOne(n) == n <= max_retries

\* Lines 252 and 262: another attempt is made.
ShouldRetry(n) == n < max_retries

\* Lines 232-268: the upload command and the branch taken on its result.
Upload ==
    /\ prog = "arch"
    /\ pc = "upload"
    /\ \E outcome \in { "rc0", "nonzero", "timeout", "interrupt" } :
          CASE outcome = "rc0" ->
                 /\ remote' = remote \cup { aip_file }
                 /\ segments' = IF Segmented(aip_file)
                                THEN segments \cup SegKeysOf(aip_file)
                                ELSE segments
                 /\ uploaded_files' = uploaded_files \cup { aip_file }
                 /\ CallSaveState(uploaded_files', NoFile, 1, "log_success")
                 /\ hist' = [ hist EXCEPT !.cmds = @ \cup { aip_file },
                                          !.segcmd = WithCommand(@, aip_file),
                                          !.transferred = @ \cup { aip_file },
                                          !.tries = @ + 1,
                                          !.fatal = FALSE,
                                          !.cancelled = FALSE ]
            [] outcome \in { "nonzero", "timeout" } ->
                 /\ \E left \in Leftovers(aip_file) :
                       segments' = segments \cup left
                 /\ IF ShouldRetry(attempt)
                    THEN CallSaveState(uploaded_files, aip_file, attempt + 1,
                                       IF outcome = "nonzero"
                                       THEN "recurse_in_try"
                                       ELSE "recurse_in_handler")
                    ELSE /\ pc' = IF outcome = "nonzero"
                                  THEN "log_failed_stderr"
                                  ELSE "log_failed_timeout"
                         /\ UNCHANGED << doc, ret >>
                 /\ \E cause \in ExitCauses :
                       hist' = [ hist EXCEPT
                                   !.cmds = @ \cup { aip_file },
                                   !.segcmd = WithCommand(@, aip_file),
                                   !.tries = @ + 1,
                                   !.fails = @ + 1,
                                   !.cleaned = FALSE,
                                   !.cancelled = FALSE,
                                   !.fatal = /\ outcome = "nonzero"
                                             /\ cause \in FatalCauses ]
                 /\ UNCHANGED << remote, uploaded_files >>
            [] outcome = "interrupt" ->
                 /\ \E left \in Leftovers(aip_file) :
                       segments' = segments \cup left
                 /\ pc' = "kbd_handler"
                 /\ hist' = [ hist EXCEPT !.cmds = @ \cup { aip_file },
                                          !.segcmd = WithCommand(@, aip_file),
                                          !.tries = @ + 1,
                                          !.fatal = FALSE,
                                          !.cancelled = TRUE ]
                 /\ UNCHANGED << remote, uploaded_files, doc, ret >>
    /\ UNCHANGED << prog, exc, aip_files, size, max_retries, stateFile,
                    backupFile, csv, remaining_files, idx, frames,
                    success_count, todo >>

\* log_to_csv (lines 39-50): one row; size, timestamp and error text are not
\* modelled.
Row(filename, status, attempts) ==
    [ filename |-> filename, status |-> status, attempts |-> attempts ]

\* Line 248.
LogSuccess ==
    /\ prog = "arch"
    /\ pc = "log_success"
    /\ csv' = Append(csv, Row(aip_file, "Success", attempt))
    /\ pc' = "return_true"
    /\ UNCHANGED << prog, exc, aip_files, size, max_retries, stateFile,
                    backupFile, remote, segments, uploaded_files,
                    remaining_files, idx, frames, success_count, doc, ret,
                    todo, hist >>

\* Lines 257-258 and 267-268.
LogFailed ==
    /\ prog = "arch"
    /\ pc \in { "log_failed_stderr", "log_failed_timeout" }
    /\ csv' = Append(csv, Row(aip_file, "Failed", attempt))
    /\ pc' = "return_false"
    /\ hist' = [ hist EXCEPT !.fatal = FALSE ]
    /\ UNCHANGED << prog, exc, aip_files, size, max_retries, stateFile,
                    backupFile, remote, segments, uploaded_files,
                    remaining_files, idx, frames, success_count, doc, ret,
                    todo >>

\* Faulty variant of Recurse: the call passes attempt instead of attempt + 1.
RecurseSameAttempt ==
    /\ prog = "arch"
    /\ pc \in { "recurse_in_try", "recurse_in_handler" }
    /\ frames' = frames
    /\ pc' = "upload_aip"
    /\ UNCHANGED << prog, exc, aip_files, size, max_retries, stateFile,
                    backupFile, remote, segments, csv, uploaded_files,
                    remaining_files, idx, success_count, doc, ret, todo, hist >>

\* Lines 255 and 265: upload_aip calls itself.  The call of line 255 is made
\* inside the try block, that of line 265 inside the TimeoutExpired handler.
Recurse ==
    /\ prog = "arch"
    /\ pc \in { "recurse_in_try", "recurse_in_handler" }
    /\ frames' = Append(frames, IF pc = "recurse_in_try" THEN "try" ELSE "handler")
    /\ pc' = "upload_aip"
    /\ UNCHANGED << prog, exc, aip_files, size, max_retries, stateFile,
                    backupFile, remote, segments, csv, uploaded_files,
                    remaining_files, idx, success_count, doc, ret, todo, hist >>

\* Lines 269-272: the KeyboardInterrupt handler of the current call.
KbdHandler ==
    /\ prog = "arch"
    /\ pc = "kbd_handler"
    /\ CallSaveState(uploaded_files, aip_file, attempt, "raise")
    /\ UNCHANGED << prog, exc, aip_files, size, max_retries, stateFile,
                    backupFile, remote, segments, csv, uploaded_files,
                    remaining_files, idx, frames, success_count, todo, hist >>

\* A KeyboardInterrupt leaves the current upload_aip call.  In the caller it
\* is caught by line 269 when the call was made inside the try block (line
\* 255); a call made inside the TimeoutExpired handler (line 265) is outside
\* the reach of the sibling handler.  With no caller left it reaches main,
\* lines 339-342: sys.exit(0).
Raise ==
    /\ prog = "arch"
    /\ pc = "raise"
    /\ IF frames = << >>
       THEN /\ pc' = "paused"
            /\ frames' = frames
       ELSE /\ frames' = SubSeq(frames, 1, Len(frames) - 1)
            /\ pc' = IF frames[Len(frames)] = "try" THEN "kbd_handler"
                     ELSE "raise"
    /\ UNCHANGED << prog, exc, aip_files, size, max_retries, stateFile,
                    backupFile, remote, segments, csv, uploaded_files,
                    remaining_files, idx, success_count, doc, ret, todo, hist >>

\* main, lines 331-332: upload_aip returned (through all its recursive
\* calls, each a plain `return upload_aip(...)`).
Return ==
    /\ prog = "arch"
    /\ pc \in { "return_true", "return_false" }
    /\ success_count' = IF pc = "return_true" THEN success_count + 1
                        ELSE success_count
    /\ idx' = idx + 1
    /\ frames' = << >>
    /\ pc' = "loop"
    /\ UNCHANGED << prog, exc, aip_files, size, max_retries, stateFile,
                    backupFile, remote, segments, csv, uploaded_files,
                    remaining_files, doc, ret, todo, hist >>

---------------------------------------------------------------------------
(* save_state (lines 52-66).  open(STATE_FILE, 'w') truncates the file in  *)
(* place; json.dump writes into it; leaving the with block closes it.      *)

\* Line 63: the file is opened for writing, which empties it.
SaveOpen ==
    /\ pc = "save_open"
    /\ stateFile' = Plain("empty")
    /\ pc' = "save_dump"
    /\ hist' = [ hist EXCEPT !.before = stateFile ]
    /\ UNCHANGED << prog, exc, aip_files, size, max_retries, backupFile,
                    remote, segments, csv, uploaded_files, remaining_files,
                    idx, frames, success_count, doc, ret, todo >>

\* The callers whose save_state call stands inside upload_aip's try block
\* (lines 247 and 254).
InTryBlock(after) == after \in { "log_success", "recurse_in_try" }

\* The save returned to its caller.
SaveReturned(after) ==
    /\ pc' = after
    /\ hist' = IF after \in { "return_true", "log_success" }
               THEN [ hist EXCEPT !.before = Absent,
                                  !.marked = @ \cup { aip_file } ]
               ELSE [ hist EXCEPT !.before = Absent ]

\* Line 64: json.dump.  Either part of the document reaches the file first
\* (a flush of the buffer), or all of it does when the file is closed.
SaveDump ==
    /\ pc = "save_dump"
    /\ \/ /\ stateFile' = Plain("truncated")
          /\ pc' = "save_close"
          /\ hist' = hist
       \/ /\ stateFile' = doc
          /\ SaveReturned(ret)
    /\ UNCHANGED << prog, exc, aip_files, size, max_retries, backupFile,
                    remote, segments, csv, uploaded_files, remaining_files,
                    idx, frames, success_count, doc, ret, todo >>

\* Line 64, end of the with block: the rest is written and the file closed.
SaveClose ==
    /\ pc = "save_close"
    /\ stateFile' = doc
    /\ SaveReturned(ret)
    /\ UNCHANGED << prog, exc, aip_files, size, max_retries, backupFile,
                    remote, segments, csv, uploaded_files, remaining_files,
                    idx, frames, success_count, doc, ret, todo >>

\* A KeyboardInterrupt during the write: the with block closes the file as
\* it is; `except Exception` (line 65) does not catch it, so it reaches the
\* caller of save_state.
SaveInterrupt ==
    /\ prog = "arch"
    /\ pc \in { "save_dump", "save_close" }
    /\ pc' = IF InTryBlock(ret) THEN "kbd_handler" ELSE "raise"
    /\ hist' = [ hist EXCEPT !.before = Absent, !.fatal = FALSE,
                             !.cancelled = TRUE ]
    /\ UNCHANGED << prog, exc, aip_files, size, max_retries, stateFile,
                    backupFile, remote, segments, csv, uploaded_files,
                    remaining_files, idx, frames, success_count, doc, ret,
                    todo >>

---------------------------------------------------------------------------
(* warc-importer.py                                                        *)

\* File sizes of the warc run: also an empty file, which is a small one.
WarcSizes == { << 0, 0 >> } \cup Sizes

\* main, line 224.
IsSmall(f) == BytesGt(SMALL_LIMIT, size[f])

InitWarc ==
    /\ prog = "warc"
    /\ pc = "w_check_credentials"
    /\ exc = "none"
    /\ aip_files \in TaskLists \cup { << >> }
    /\ size \in [ Files -> WarcSizes ]
    /\ max_retries \in RetryLimits
    /\ stateFile = Absent
    /\ backupFile = Absent
    /\ remote = {}
    /\ segments = {}
    /\ csv = << >>
    /\ uploaded_files = {}
    /\ remaining_files = << >>
    /\ idx = 0
    /\ frames = << >>
    /\ success_count = 0
    /\ doc = Absent
    /\ ret = "none"
    /\ todo = << >>
    /\ hist = HistInit

\* check_credentials (lines 50-76): a missing variable, a failed auth call or
\* an answer without a token end in sys.exit(1).
WarcCheckCredentials ==
    /\ prog = "warc"
    /\ pc = "w_check_credentials"
    /\ \E outcome \in { "ok", "missing", "auth_failed", "no_token" } :
          /\ pc' = IF outcome = "ok" THEN "w_test_connection" ELSE "exit1"
          /\ hist' = [ hist EXCEPT !.authFailed = (outcome # "ok") ]
    /\ UNCHANGED << prog, exc, aip_files, size, max_retries, stateFile,
                    backupFile, remote, segments, csv, uploaded_files,
                    remaining_files, idx, frames, success_count, doc, ret,
                    todo >>

\* main, lines 195-215: test_connection, ensure_container_exists, init_csv
\* and the checks of AIP_ROOT.
WarcSetup ==
    /\ prog = "warc"
    /\ pc = "w_test_connection"
    /\ \E outcome \in { "ok", "connection_failed", "bad_root" } :
          pc' = IF outcome = "ok" THEN "w_test_upload" ELSE "exit1"
    /\ UNCHANGED << prog, exc, aip_files, size, max_retries, stateFile,
                    backupFile, remote, segments, csv, uploaded_files,
                    remaining_files, idx, frames, success_count, doc, ret,
                    todo, hist >>

\* main, lines 224-227 and 236: the file of the test upload.
test_file ==
    LET small_files == SelectSeq(aip_files, IsSmall)
    IN  IF small_files # << >> THEN small_files[1] ELSE aip_files[1]

\* The file of the upload_aip call in progress: idx = 0 is the test upload.
warc_file == IF idx = 0 THEN test_file ELSE aip_files[idx]

\* main, lines 222-244: the test upload is started, when there is a file.
WarcTestUpload ==
    /\ prog = "warc"
    /\ pc = "w_test_upload"
    /\ IF aip_files # << >>
       THEN /\ pc' = "w_upload_aip"
            /\ idx' = 0
       ELSE /\ pc' = "w_loop"
            /\ idx' = 1
    /\ frames' = << >>
    /\ hist' = [ hist EXCEPT !.tries = 0, !.fails = 0, !.rows0 = Len(csv) ]
    /\ UNCHANGED << prog, exc, aip_files, size, max_retries, stateFile,
                    backupFile, remote, segments, csv, uploaded_files,
                    remaining_files, success_count, doc, ret, todo >>

\* upload_aip (lines 123-188): one call.  aip_file.stat() of line 125 raises
\* when the file is gone, and a KeyboardInterrupt has no handler.
WarcUploadAip ==
    /\ prog = "warc"
    /\ pc = "w_upload_aip"
    /\ \E outcome \in { "rc0", "nonzero", "timeout", "oserror", "interrupt" } :
          CASE outcome = "rc0" ->
                 /\ remote' = remote \cup { warc_file }
                 /\ segments' = IF Segmented(warc_file)
                                THEN segments \cup SegKeysOf(warc_file)
                                ELSE segments
                 /\ csv' = Append(csv, Row(warc_file, "Success", attempt))
                 /\ pc' = "w_return_true"
                 /\ hist' = [ hist EXCEPT !.cmds = @ \cup { warc_file },
                                          !.segcmd = WithCommand(@, warc_file),
                                          !.tries = @ + 1,
                                          !.fatal = FALSE ]
                 /\ UNCHANGED << exc, frames >>
            [] outcome \in { "nonzero", "timeout" } ->
                 /\ \E left \in Leftovers(warc_file) :
                       segments' = segments \cup left
                 /\ IF ShouldRetry(attempt)
                    THEN /\ frames' = Append(frames, "call")
                         /\ pc' = "w_upload_aip"
                         /\ csv' = csv
                    ELSE /\ csv' = Append(csv, Row(warc_file, "Failed", attempt))
                         /\ pc' = "w_return_false"
                         /\ frames' = frames
                 /\ \E cause \in ExitCauses :
                       hist' = [ hist EXCEPT
                                   !.cmds = @ \cup { warc_file },
                                   !.segcmd = WithCommand(@, warc_file),
                                   !.tries = @ + 1,
                                   !.fails = @ + 1,
                                   !.fatal = /\ outcome = "nonzero"
                                             /\ cause \in FatalCauses
                                             /\ ShouldRetry(attempt) ]
                 /\ UNCHANGED << exc, remote >>
            [] outcome = "oserror" ->
                 /\ Uncaught("FileNotFoundError")
                 /\ hist' = [ hist EXCEPT !.fatal = FALSE ]
                 /\ UNCHANGED << remote, segments, csv, frames >>
            [] outcome = "interrupt" ->
                 /\ Uncaught("KeyboardInterrupt")
                 /\ \E left \in Leftovers(warc_file) :
                       segments' = segments \cup left
                 /\ hist' = [ hist EXCEPT !.cmds = @ \cup { warc_file },
                                          !.segcmd = WithCommand(@, warc_file),
                                          !.tries = @ + 1,
                                          !.fatal = FALSE ]
                 /\ UNCHANGED << remote, csv, frames >>
    /\ UNCHANGED << prog, aip_files, size, max_retries, stateFile, backupFile,
                    uploaded_files, remaining_files, idx, success_count, doc,
                    ret, todo >>

\* main: upload_aip returned.  After the test upload (lines 229-242) the run
\* goes on only if it succeeded; in the loop (lines 246-247) the successes
\* are counted.
WarcReturn ==
    /\ prog = "warc"
    /\ pc \in { "w_return_true", "w_return_false" }
    /\ IF idx = 0
       THEN /\ pc' = IF pc = "w_return_true" THEN "w_loop" ELSE "done"
            /\ success_count' = success_count
       ELSE /\ pc' = "w_loop"
            /\ success_count' = IF pc = "w_return_true"
                                THEN success_count + 1 ELSE success_count
    /\ idx' = idx + 1
    /\ frames' = << >>
    /\ UNCHANGED << prog, exc, aip_files, size, max_retries, stateFile,
                    backupFile, remote, segments, csv, uploaded_files,
                    remaining_files, doc, ret, todo, hist >>

\* main, lines 245-250: the loop over every file, then the summary.
WarcLoop ==
    /\ prog = "warc"
    /\ pc = "w_loop"
    /\ IF idx <= Len(aip_files)
       THEN /\ pc' = "w_upload_aip"
            /\ hist' = [ hist EXCEPT !.tries = 0, !.fails = 0,
                                     !.rows0 = Len(csv) ]
       ELSE /\ pc' = "done"
            /\ hist' = hist
    /\ UNCHANGED << prog, exc, aip_files, size, max_retries, stateFile,
                    backupFile, remote, segments, csv, uploaded_files,
                    remaining_files, idx, frames, success_count, doc, ret,
                    todo >>

NextWarc ==
    \/ WarcCheckCredentials \/ WarcSetup \/ WarcTestUpload \/ WarcUploadAip
    \/ WarcReturn \/ WarcLoop

---------------------------------------------------------------------------
(* cleanup_segments on its own: every file name and every content of the   *)
(* segment container.                                                      *)

CleanupNames == { FileA, FileAB, << "b" >> }

InitCleanup ==
    /\ prog = "cleanup"
    /\ pc = "cleanup_list"
    /\ exc = "none"
    /\ \E f \in CleanupNames :
          /\ aip_files = << f >>
          /\ remaining_files = << f >>
    /\ size = [ f \in Files |-> BytesSucc(SEGMENT_THRESHOLD) ]
    /\ max_retries = MAX_RETRIES
    /\ stateFile = Absent
    /\ backupFile = Absent
    /\ remote = {}
    /\ segments \in SUBSET AllKeys
    /\ csv = << >>
    /\ uploaded_files = {}
    /\ idx = 1
    /\ frames = << >>
    /\ success_count = 0
    /\ doc = Absent
    /\ ret = "none"
    /\ todo = << >>
    /\ hist = HistInit

NextCleanup == CleanupList \/ CleanupDelete

SpecCleanup == InitCleanup /\ [][NextCleanup]_vars

---------------------------------------------------------------------------
(* save_state followed by load_state, for every completed set and every    *)
(* in-flight value.                                                        *)

InitRoundTrip ==
    /\ prog = "roundtrip"
    /\ pc = "save_open"
    /\ exc = "none"
    /\ aip_files = << >>
    /\ size = [ f \in Files |-> SEGMENT_THRESHOLD ]
    /\ max_retries = MAX_RETRIES
    /\ stateFile \in { Absent, StateDoc({ FileZ }, FileA, 2) }
    /\ backupFile = Absent
    /\ remote = {}
    /\ segments = {}
    /\ csv = << >>
    /\ uploaded_files \in SUBSET StateNames
    /\ \/ /\ remaining_files = << >>
          /\ idx = 0
          /\ frames = << >>
          /\ doc = StateDoc(uploaded_files, NoFile, 1)
       \/ /\ \E f \in StateNames : remaining_files = << f >>
          /\ idx = 1
          /\ \E n \in 1..MAX_RETRIES : frames = [ i \in 1..(n - 1) |-> "try" ]
          /\ doc = StateDoc(uploaded_files, aip_file, attempt)
    /\ success_count = 0
    /\ ret = "load_state"
    /\ todo = << >>
    /\ hist = HistInit

\* main, line 291: state = load_state().
RoundTripLoad ==
    /\ prog = "roundtrip"
    /\ pc = "load_state"
    /\ doc' = load_state(stateFile)
    /\ pc' = "done"
    /\ UNCHANGED << prog, exc, aip_files, size, max_retries, stateFile,
                    backupFile, remote, segments, csv, uploaded_files,
                    remaining_files, idx, frames, success_count, ret, todo,
                    hist >>

NextRoundTrip == SaveOpen \/ SaveDump \/ SaveClose \/ RoundTripLoad

SpecRoundTrip == InitRoundTrip /\ [][NextRoundTrip]_vars

---------------------------------------------------------------------------
(* The two importers                                                       *)

Init == InitArch \/ InitWarc

NextArch ==
    \/ LoadState \/ CheckCredentials \/ TestConnection \/ EnsureContainers
    \/ LoopNext \/ LoopEnd \/ UploadAipEntry \/ CheckObjectExists
    \/ CleanupList \/ CleanupDelete \/ CleanupReturn
    \/ Upload \/ LogSuccess \/ LogFailed \/ Recurse \/ KbdHandler \/ Raise
    \/ Return \/ SaveOpen \/ SaveDump \/ SaveClose \/ SaveInterrupt

Next == NextArch \/ NextWarc

Spec == Init /\ [][Next]_vars

---------------------------------------------------------------------------
(* Runs of arch-importer.py in which every subprocess call ends with an    *)
(* exit status or a timeout: the set-up succeeds, the files stay readable   *)
(* and nobody presses Ctrl+C.  The script is one thread that always takes   *)
(* its next step, and every subprocess call returns (each has a timeout).   *)

InitLive ==
    /\ InitArch
    /\ stateFile \in { Absent, StateDoc({ FileA }, FileAB, 2) }
    /\ size = [ f \in Files |-> BytesSucc(SEGMENT_THRESHOLD) ]

\* No step ends the run other than through the end of main's loop.
NoFault == pc' \notin { "exit1", "uncaught", "kbd_handler", "raise", "paused" }

NextLive ==
    /\ \/ LoadState \/ CheckCredentials \/ TestConnection \/ EnsureContainers
       \/ LoopNext \/ LoopEnd \/ UploadAipEntry \/ CheckObjectExists
       \/ CleanupList \/ CleanupDelete \/ CleanupReturn
       \/ Upload \/ LogSuccess \/ LogFailed \/ Recurse
       \/ Return \/ SaveOpen \/ SaveDump \/ SaveClose
    /\ NoFault

SpecLive == InitLive /\ [][NextLive]_vars /\ WF_vars(NextLive)

---------------------------------------------------------------------------
(* Properties                                                              *)

\* The file of the upload_aip call in progress, in either importer.
TaskFile == IF prog = "warc" THEN warc_file ELSE aip_file

\* upload_aip has returned to main.
TaskReturned ==
    pc \in { "return_true", "return_false", "w_return_true", "w_return_false" }

RowsOf(f) == { i \in 1..Len(csv) : csv[i].filename = f }

\* What a run that loaded the artifact c would take as its completed set.
LoadedCompleted(c) == InitialUploaded(load_state(c))

\* C1 (idempotent resume): a run of arch-importer.py that started from a
\* state artifact whose completed set is C never runs the pre-flight check,
\* never issues an upload command and never appends a result row for a file
\* of C; and when it ends normally it has processed every discovered file
\* that is not in C.
IdempotentResume ==
    prog = "arch" =>
        /\ \A f \in hist.completed0 :
              /\ f \notin hist.cmds
              /\ f \notin hist.stats
              /\ RowsOf(f) = {}
        /\ pc = "done" =>
              \A f \in SeqToSet(aip_files) \ hist.completed0 : f \in hist.stats

\* C1, its case: a run resumed with A completed has finished after uploading
\* the other file.
IdempotentResumeWitness ==
    /\ prog = "arch"
    /\ pc = "done"
    /\ aip_files = FileOrder
    /\ hist.completed0 = { FileA }
    /\ hist.cmds = { FileAB }
    /\ RowsOf(FileAB) # {}

\* Every attempt of the task that has returned failed, and the task ended
\* with a Failed row for attempt MAX_RETRIES as its only row.
AllAttemptsMadeAndFailed ==
    /\ hist.tries = max_retries
    /\ Len(csv) = hist.rows0 + 1
    /\ csv[Len(csv)] = Row(TaskFile, "Failed", max_retries)

CrashSafety ==
    (prog = "arch" /\ pc \in { "log_success", "return_true", "loop" }) =>
        /\ MainStateError(load_state(stateFile)) = "none"
        /\ hist.marked \subseteq LoadedCompleted(stateFile)
        /\ LoadedCompleted(stateFile) \subseteq uploaded_files

\* C3, its case: A has been marked completed by this run and B is still to
\* be processed.
CrashSafetyWitness ==
    /\ prog = "arch"
    /\ pc = "loop"
    /\ hist.marked = { FileA }
    /\ idx = 2
    /\ remaining_files = FileOrder

\* C4 (atomic save): while save_state is writing, the artifact is either
\* the complete previous one or the complete new one.
AtomicSave ==
    pc \in { "save_dump", "save_close" } =>
        stateFile \in { hist.before, doc }

\* C5 (fail-soft load): whatever the artifact holds, no exception of loading
\* it or of using what was loaded ends the run, and the run starts with the
\* empty set or the stored set.
FailSoftLoad ==
    /\ pc = "uncaught" => exc \notin { "KeyError", "TypeError" }
    /\ (prog = "arch" /\ pc = "check_credentials") =>
          uploaded_files \in { {}, hist.completed0 }

CorruptKinds == { "empty", "truncated", "garbage" }

\* The artifact load_state found: it is still in place, or it is the backup.
FoundAtLoad == IF backupFile.kind # "absent" THEN backupFile ELSE stateFile

\* C6 (corrupt-state backup): when load_state found an empty, truncated or
\* unparseable artifact, the backup holds it afterwards.
CorruptStateBackedUp ==
    (prog = "arch" /\ pc = "check_credentials") =>
        (FoundAtLoad.kind \in CorruptKinds => backupFile = FoundAtLoad)

\* C7 (fatal short-circuit): once check_credentials has failed, the run has
\* ended with sys.exit(1); no pre-flight check was made, no upload command
\* issued and no result row appended.
FatalShortCircuit ==
    hist.authFailed =>
        /\ pc = "exit1"
        /\ csv = << >>
        /\ hist.cmds = {}
        /\ hist.stats = {}

\* C7, its case: the authentication of a run with files to upload failed.
FatalShortCircuitWitness ==
    /\ hist.authFailed
    /\ pc = "exit1"
    /\ aip_files = FileOrder

\* C8 (orphan cleanup timing): a segmented upload starts an attempt, and is
\* marked terminally failed, only after cleanup_segments has run since the
\* task started or since its last failed attempt.
CleanupBeforeEveryAttempt ==
    (prog = "arch" /\ pc \in { "upload", "log_failed_stderr", "log_failed_timeout" }) =>
        (Segmented(aip_file) => hist.cleaned)

\* C9 (orphan cleanup result): when no delete call failed, cleanup_segments
\* returns having removed exactly the keys that contain the file name, the
\* value it returns is their number, and no such key is left.
OrphanCleanupResult ==
    (pc = "cleanup_return" /\ hist.cl.attempted \subseteq hist.cl.removed) =>
        LET matching == { k \in hist.cl.before : Contains(aip_file, k) }
        IN  /\ hist.cl.before \ segments = matching
            /\ segments \subseteq hist.cl.before
            /\ ~cleanup_segments_value.isNone
            /\ cleanup_segments_value.count = Cardinality(matching)
            /\ MatchingSegments(aip_file, segments) = << >>

\* C10 (best-effort deletion): when a delete call failed, cleanup_segments
\* still issued a delete call for every matching segment before it returned.
BestEffortDeletion ==
    ( /\ pc = "cleanup_return"
      /\ hist.cl.listed
      /\ ~(hist.cl.attempted \subseteq hist.cl.removed) )
        => hist.cl.attempted = hist.cl.matched

\* The discovered files that come after f in the task list.
LaterTasks(f) ==
    { aip_files[k] : k \in { j \in 1..Len(aip_files) :
                               \E m \in 1..(j - 1) : aip_files[m] = f } }

\* upload_aip was called for f and got as far as the pre-flight check (arch)
\* or the upload command.
Attempted(f) == f \in hist.cmds \cup hist.stats

\* C11 (failure isolation): a task that fails terminally gets a Failed row,
\* and when the run has ended, every file listed after a file with a Failed
\* row (and not completed before the run) was attempted.
FailureIsolation ==
    /\ pc \in { "return_false", "w_return_false" } =>
          /\ Len(csv) = hist.rows0 + 1
          /\ csv[Len(csv)] = Row(TaskFile, "Failed", attempt)
    /\ pc = "done" =>
          \A i \in 1..Len(csv) :
              csv[i].status = "Failed" =>
                  \A g \in LaterTasks(csv[i].filename) \ hist.completed0 :
                      Attempted(g)

\* C12 (task-local error containment): no error of reading the local file
\* of the task being processed ends the run.
TaskLocalContainment ==
    (pc = "uncaught" /\ exc = "FileNotFoundError") =>
        (prog = "arch" /\ idx = 0)

\* C13 (fatal kinds are never retried): after an upload command failed for
\* a fatal cause, upload_aip does not call itself for another attempt and
\* issues no other upload command for the task.
FatalNeverRetried ==
    hist.fatal =>
        pc \notin { "recurse_in_try", "upload_aip", "upload", "w_upload_aip" }

\* Where the run is while a KeyboardInterrupt makes its way to main: the
\* handler of upload_aip, its save_state call, the re-raise, and the exit.
Stopping ==
    \/ pc \in { "kbd_handler", "raise", "paused" }
    \/ pc \in { "save_open", "save_dump", "save_close" } /\ ret = "raise"

\* The state artifact is the document of the in-memory completed set.
StatePersisted ==
    /\ stateFile.kind = "state"
    /\ stateFile.uploaded_files = uploaded_files

\* C14 (interruption): once a KeyboardInterrupt has arrived while a task is
\* processed, the run does nothing but save its state and exit; it exits
\* through sys.exit(0), not with the exception, and the state artifact then
\* holds the current state.
Interruption ==
    /\ hist.cancelled => Stopping
    /\ pc = "paused" => StatePersisted
    /\ pc = "uncaught" => exc # "KeyboardInterrupt"

\* C15 (resumable partial run): when a run of arch-importer.py has ended,
\* through its loop or through an interruption, with a discovered file not
\* completed, the state artifact loads to exactly the completed set.
ResumablePartialRun ==
    ( /\ prog = "arch"
      /\ pc \in { "done", "paused" }
      /\ ~(SeqToSet(aip_files) \subseteq uploaded_files) )
        => /\ load_state(stateFile) # None
           /\ MainStateError(load_state(stateFile)) = "none"
           /\ LoadedCompleted(stateFile) = uploaded_files

\* C16 (segmentation boundary): the upload command of a file is a segmented
\* one exactly when the file is larger than the threshold: a file of the
\* threshold size is uploaded unsegmented, a file one byte larger segmented.
SegmentationBoundary ==
    \A f \in hist.cmds :
        /\ size[f] = SEGMENT_THRESHOLD => f \notin hist.segcmd
        /\ size[f] = BytesSucc(SEGMENT_THRESHOLD) => f \in hist.segcmd
        /\ f \in hist.segcmd <=> BytesGt(size[f], SEGMENT_THRESHOLD)

\* C16, its case: a file of exactly the threshold and a file one byte larger
\* have both been uploaded, the first unsegmented, the second segmented.
SegmentationBoundaryWitness ==
    /\ hist.cmds = { FileA, FileAB }
    /\ size[FileA] = SEGMENT_THRESHOLD
    /\ size[FileAB] = << 5, 1 >>
    /\ hist.segcmd = { FileAB }
    /\ SegKeysOf(FileAB) \subseteq segments
    /\ remote = { FileA, FileAB }

\* C17 (one record per terminal outcome): when upload_aip returns after a
\* successful transfer or a terminal failure, exactly one row has been
\* appended for the task since it started, with its status; and no file
\* has two rows in the result log of one run.
OneRecordPerOutcome ==
    /\ \A f \in Files : Cardinality(RowsOf(f)) <= 1
    /\ pc \in { "return_false", "w_return_false" } =>
          /\ Len(csv) = hist.rows0 + 1
          /\ csv[Len(csv)].filename = TaskFile
          /\ csv[Len(csv)].status = "Failed"
    /\ ( /\ pc \in { "return_true", "w_return_true" }
         /\ hist.tries >= 1
         /\ TaskFile \notin hist.hits ) =>
          /\ Len(csv) = hist.rows0 + 1
          /\ csv[Len(csv)].filename = TaskFile
          /\ csv[Len(csv)].status = "Success"

PreflightSkip ==
    prog = "arch" =>
        /\ pc = "upload" => aip_file \notin remote
        /\ (pc \in { "return_true", "return_false" } /\ aip_file \in remote)
              => aip_file \in LoadedCompleted(stateFile)

\* C20 (completed-set invariant): every name the run has added to its
\* completed set is in the container and was added on a pre-flight check
\* that found it or on an upload command that exited 0.
CompletedSetInvariant ==
    prog = "arch" =>
        \A f \in uploaded_files \ hist.completed0 :
            /\ f \in remote
            /\ f \in hist.hits \cup hist.transferred

\* C20, its case: the run has added one name on a pre-flight hit and one on
\* a transfer that succeeded at the second attempt, after a failed one.
CompletedSetInvariantWitness ==
    /\ prog = "arch"
    /\ pc = "loop"
    /\ hist.completed0 = {}
    /\ uploaded_files = { FileA, FileAB }
    /\ hist.hits = { FileA }
    /\ hist.transferred = { FileAB }
    /\ csv = << Row(FileAB, "Success", 2) >>

\* upload_aip returns for a file that is skipped or uploaded, or that has
\* failed MAX_RETRIES times and has its Failed row.
TaskTerminal ==
    /\ pc = "return_true" => aip_file \in uploaded_files
    /\ pc = "return_false" =>
          /\ hist.tries = max_retries
          /\ csv[Len(csv)] = Row(aip_file, "Failed", max_retries)

\* An upload command is issued as attempt N + 1 only when N commands have
\* been issued for the file before and each has ended in a failure.
AttemptsInOrder ==
    pc = "upload" =>
        /\ hist.tries = attempt - 1
        /\ hist.fails = hist.tries

\* main has left its loop after the last file, each file of the loop being
\* completed or terminally failed.
RunComplete ==
    pc = "done" =>
        /\ idx = Len(remaining_files) + 1
        /\ \A f \in SeqToSet(remaining_files) :
              \/ f \in uploaded_files
              \/ \E i \in RowsOf(f) : csv[i] = Row(f, "Failed", max_retries)

\* C21 (termination and attempt ordering): whatever the exit status or
\* timeout of each subprocess call, never more than MAX_RETRIES upload
\* commands are issued for a file, attempt N + 1 is issued only after attempt
\* N has ended, every upload_aip call returns with the file skipped, uploaded
\* or terminally failed, and the run reaches the end of main after the last
\* file.
Termination ==
    /\ [](/\ hist.tries <= max_retries
          /\ AttemptsInOrder
          /\ TaskTerminal
          /\ RunComplete)
    /\ <>(pc = "done")

\* C21, its case: with MAX_RETRIES = 3 the run has ended after a first file
\* that failed three times and a second that was uploaded at its second
\* attempt.
TerminationWitness ==
    /\ pc = "done"
    /\ max_retries = 3
    /\ csv = << Row(FileA, "Failed", 3), Row(FileAB, "Success", 2) >>

\* The run was interrupted while an upload command of the current file was
\* running: the last command issued for it neither failed nor succeeded.
InterruptedInAttempt ==
    /\ prog = "arch"
    /\ pc = "paused"
    /\ hist.tries = hist.fails + 1
    /\ aip_file \notin hist.transferred

\* C22 (in-flight checkpoint on interruption): when the run has exited after
\* a KeyboardInterrupt during upload command N of a file, and the state
\* artifact was written to its end, it names that file as in flight with
\* attempt N.
InFlightCheckpoint ==
    (InterruptedInAttempt /\ stateFile.kind = "state") =>
        InFlight(load_state(stateFile)) = << aip_file, hist.tries >>

\* main, line 347: the number of failures of the summary.
failed_count == Len(aip_files) - success_count

\* C23 (final counts): in the summary of a run of arch-importer.py the
\* number of successes lies between 0 and the number of discovered files
\* and is the number of discovered files that are completed, the number of
\* failures is not negative, and the two add up to the number of discovered
\* files.
FinalCounts ==
    (prog = "arch" /\ pc = "done") =>
        /\ success_count \in 0..Len(aip_files)
        /\ failed_count >= 0
        /\ success_count + failed_count = Len(aip_files)
        /\ success_count = Cardinality(SeqToSet(aip_files) \cap uploaded_files)

==========================================================================
